---- MODULE Spec2Model ----
(***************************************************************************)
(* A model of andreyvit/sealer: the sealer (Seal, Writer, encryptor) and   *)
(* the opener (Prepare, Openable.Open, decryptor).                         *)
(*                                                                         *)
(* Byte streams are sequences of byte records [t, v, h]; a data byte has   *)
(* t = "b" and its value in v.  The two AEADs of chacha20poly1305 are      *)
(* modelled as a stream cipher with an ideal authenticator: a ciphertext   *)
(* byte is the plaintext byte plus a keystream byte, and the 16 tag bytes  *)
(* have t = "tag", the first of them remembering (key, nonce, ciphertext,  *)
(* additional data), so that opening succeeds exactly when all four are    *)
(* the ones the box was sealed with.                                       *)
(***************************************************************************)
EXTENDS Integers, Sequences, FiniteSets, TLC

----------------------------------------------------------------------------
\* Bounds of the model.

\* the caller writes at most this many plaintext bytes in total
MaxData == 3
\* the caller makes at most this many Write calls
MaxWrites == 2
\* the caller makes at most this many Close calls
MaxCloses == 2
\* the largest chunk size the sealing options are drawn from
MaxCS == 3
\* the largest buffer a caller hands to decryptor.Read
MaxRead == 2
\* a failing sink fails within this many Write calls
MaxSinkCalls == 3

----------------------------------------------------------------------------
\* Constants of the program.

KeySize == 32
IDSize == 32
nonceSizeS == 12
nonceSizeX == 24
overhead == 16
DefaultChunkSize == 32 * 1024
MaxChunkSize == 1024 * 1024
headerSize == 8 + IDSize + nonceSizeX + KeySize + overhead
offVersion == 0
offChunkSize == offVersion + 4
offKeyID == offChunkSize + 4
offEncKey == offKeyID + IDSize
chunkHeaderSize == 4
\* TLC integers are 32 bits wide: a uint32 is held as the int32 with the same
\* bit pattern, so 0xffff_ffff is -1 and values from 2^31 up are negative.
finalChunkIndex == -1
MaxInt32 == 2147483647

----------------------------------------------------------------------------
\* Bytes and byte strings.

Byte(n) == [t |-> "b", v |-> n, h |-> <<>>]

RECURSIVE Rep(_, _)
Rep(b, n) == IF n = 0 THEN <<>> ELSE <<b>> \o Rep(b, n - 1)

Zeros(n) == Rep(Byte(0), n)

\* Go's s[a:b], with 0-based half-open bounds
Slice(s, a, b) == SubSeq(s, a + 1, b)

\* binary.LittleEndian.AppendUint32 / PutUint32
LE32(n) ==
    << Byte(n % 256), Byte((n \div 256) % 256),
       Byte((n \div 65536) % 256), Byte((n \div 16777216) % 256) >>

\* binary.LittleEndian.Uint32
Uint32(bs) ==
    bs[1].v + 256 * bs[2].v + 65536 * bs[3].v
      + 16777216 * (IF bs[4].v >= 128 THEN bs[4].v - 256 ELSE bs[4].v)

\* i++ on a uint32
Inc32(i) == IF i = MaxInt32 THEN (-MaxInt32) - 1 ELSE i + 1

\* int(u) >= m
GreaterOrEqualU32(u, m) == u < 0 \/ u >= m

\* int(u) > m for a uint32 u and a small m >= 0
GreaterU32(u, m) == u < 0 \/ u > m

\* a nonce without the finality flag
fillNonceNoFinal(i, isFinal) == LE32(i) \o Zeros(nonceSizeS - 4)

\* fillNonce: the chunk index in bytes 0..3, the finality flag in the last byte
fillNonce(i, isFinal) ==
    LE32(i) \o Zeros(nonceSizeS - 5) \o << Byte(IF isFinal THEN 1 ELSE 0) >>

----------------------------------------------------------------------------
\* The AEAD of chacha20poly1305 (New and NewX differ in the nonce length).

Vals(bs) == [i \in 1..Len(bs) |-> bs[i].v]

\* the keystream byte at position i
Keystream(key, nonce, i) ==
    (key[1].v + nonce[1].v + 3 * nonce[Len(nonce)].v + 5 * Len(nonce) + i) % 256

Encrypt(key, nonce, pt) ==
    [i \in 1..Len(pt) |-> Byte((pt[i].v + Keystream(key, nonce, i)) % 256)]

Decrypt(key, nonce, ct) ==
    [i \in 1..Len(ct) |-> Byte((ct[i].v + 256 - Keystream(key, nonce, i)) % 256)]

TagBytes(key, nonce, ct, aad) ==
    [j \in 1..overhead |->
        [t |-> "tag", v |-> j,
         h |-> IF j = 1 THEN <<Vals(key), Vals(nonce), ct, aad>> ELSE <<>>]]

\* cipher.AEAD.Seal: ciphertext followed by the tag
AeadSeal(key, nonce, pt, aad) ==
    LET ct == Encrypt(key, nonce, pt)
    IN  ct \o TagBytes(key, nonce, ct, aad)

\* cipher.AEAD.Open: the plaintext, or an authentication failure
AeadOpen(key, nonce, sealed, aad) ==
    IF Len(sealed) < overhead
    THEN [ok |-> FALSE, pt |-> <<>>]
    ELSE LET n   == Len(sealed) - overhead
             ct  == SubSeq(sealed, 1, n)
             tag == SubSeq(sealed, n + 1, Len(sealed))
         IN  IF tag = TagBytes(key, nonce, ct, aad)
             THEN [ok |-> TRUE, pt |-> Decrypt(key, nonce, ct)]
             ELSE [ok |-> FALSE, pt |-> <<>>]

----------------------------------------------------------------------------
\* Inputs.

\* Key: a 32-byte ID and a 32-byte secret
MkKey(id, secret) ==
    [ID |-> <<Byte(id)>> \o Zeros(IDSize - 1), Key |-> Rep(Byte(secret), KeySize)]

Keys == { MkKey(69, 17), MkKey(1, 34) }

OuterPrefixes == { <<>>, <<Byte(49), Byte(50)>> }

\* the outer prefixes a caller may hand to Prepare
PrefixArgs == OuterPrefixes \cup { <<Byte(49), Byte(51)>> }

\* SealOptions.ChunkSize: 0 asks for the default
ChunkSizes == 0..MaxCS

\* the plaintext: the caller writes successive pieces of this tape
Tape == [i \in 1..MaxData |-> Byte((170 + 85 * i) % 256)]

\* SealOptions.RandomReader: the bytes io.ReadFull draws from it
RandomBytes == [i \in 1..(nonceSizeX + KeySize) |-> Byte(100 + i)]

----------------------------------------------------------------------------
\* The zstd codec (github.com/klauspost/compress/zstd), reduced to a frame
\* marker followed by the recoded bytes.  An encoder that was given no data
\* emits nothing, and the decoder of an empty stream yields no data.

ZstdMagic == << Byte(40) >>

ZstdEncode(data) == [i \in 1..Len(data) |-> Byte((data[i].v + 1) % 256)]

ZstdDecode(z) ==
    IF z = <<>> THEN [ok |-> TRUE, data |-> <<>>]
    ELSE IF Len(z) < Len(ZstdMagic) \/ SubSeq(z, 1, Len(ZstdMagic)) # ZstdMagic
    THEN [ok |-> FALSE, data |-> <<>>]
    ELSE [ok |-> TRUE,
          data |-> [i \in 1..(Len(z) - Len(ZstdMagic)) |->
                       Byte((z[i + Len(ZstdMagic)].v + 255) % 256)]]

----------------------------------------------------------------------------
\* The sealer.

VARIABLES
    wstate,       \* "new" before Seal, "open" once Seal returned the Writer
    key,          \* the Key given to Seal
    outerPrefix,  \* the outer prefix given to Seal
    optChunkSize, \* SealOptions.ChunkSize given to Seal
    enc,          \* the encryptor, with the sink it writes to (enc.out)
    compr,        \* the zstd encoder of the Writer
    written,      \* the plaintext accepted by Writer.Write so far
    writes,       \* the number of Write calls made
    closes,       \* the number of Close calls made
    wres          \* what the last Writer call returned

wvars == <<wstate, key, outerPrefix, optChunkSize, enc, compr, written, writes,
           closes, wres>>

VARIABLES
    threat,       \* what may happen to a stream before it is opened
    rstate,       \* "idle", "prepared", "opened" (a Reader exists) or "failed"
    feed,         \* which stream the opener was given, and by whom
    input,        \* the bytes still unread in the opener's source
    opn,          \* the Openable
    dec,          \* the decryptor of the Reader
    rkey,         \* the Key given to Open
    rerr,         \* what the last opener call returned
    rfirst,       \* the first error a decryptor.Read returned, "nil" if none
    got           \* the bytes decryptor.Read has returned so far

rvars == <<threat, rstate, feed, input, opn, dec, rkey, rerr, rfirst, got>>

vars == <<wvars, rvars>>

\* encapsulate: the ephemeral key sealed under the user key with XChaCha20,
\* in place after the 24-byte nonce
encapsulate(userKey, staging) ==
    LET nonce == Slice(staging, 0, nonceSizeX)
        eph   == Slice(staging, nonceSizeX, nonceSizeX + KeySize)
    IN  nonce \o AeadSeal(userKey, nonce, eph, <<>>)

\* io.Writer.Write on the sink: one record per call
SinkWrite(o, kind, bytes) == Append(o, [kind |-> kind, bytes |-> bytes])

\* the sink's answer to its next Write call: the sink follows a plan, one
\* entry per call (TRUE: the call succeeds), and accepts every call once the
\* plan is used up
SinkAccepts(plan) == plan = <<>> \/ Head(plan)

SinkNext(plan) == IF plan = <<>> THEN <<>> ELSE Tail(plan)

\* a flush that keeps the prefix
flushKeepPrefix(e, buf, isFinal) ==
    LET hasPrefix   == e.prefix # <<>>
        o1          == IF hasPrefix
                       THEN SinkWrite(e.out, "prefix", e.prefix)
                       ELSE e.out
        s1          == IF hasPrefix THEN SinkNext(e.sink) ELSE e.sink
        headerIndex == IF isFinal THEN finalChunkIndex ELSE e.chunkIndex
        nonce       == fillNonce(e.chunkIndex, isFinal)
        sealed      == AeadSeal(e.aead, nonce, buf, e.prefix)
        output      == LE32(headerIndex) \o sealed
    IN  IF hasPrefix /\ ~SinkAccepts(e.sink)
        THEN [e EXCEPT !.sink = s1, !.err = "ErrSink"]
        ELSE IF ~SinkAccepts(s1)
        THEN [e EXCEPT !.chunkIndex = Inc32(@),
                       !.out = o1,
                       !.sink = SinkNext(s1),
                       !.err = "ErrSink"]
        ELSE [e EXCEPT !.chunkIndex = Inc32(@),
                       !.out = SinkWrite(o1, "frame", output),
                       !.sink = SinkNext(s1),
                       !.err = "nil"]

\* encryptor.flush; err is the error it returns
flush(e, buf, isFinal) ==
    LET hasPrefix   == e.prefix # <<>>
        o1          == IF hasPrefix
                       THEN SinkWrite(e.out, "prefix", e.prefix)
                       ELSE e.out
        s1          == IF hasPrefix THEN SinkNext(e.sink) ELSE e.sink
        headerIndex == IF isFinal THEN finalChunkIndex ELSE e.chunkIndex
        nonce       == fillNonce(e.chunkIndex, isFinal)
        sealed      == AeadSeal(e.aead, nonce, buf, e.prefix)
        output      == LE32(headerIndex) \o sealed
    IN  IF hasPrefix /\ ~SinkAccepts(e.sink)
        THEN [e EXCEPT !.sink = s1, !.err = "ErrSink"]
        ELSE IF ~SinkAccepts(s1)
        THEN [e EXCEPT !.chunkIndex = Inc32(@),
                       !.prefix = <<>>,
                       !.out = o1,
                       !.sink = SinkNext(s1),
                       !.err = "ErrSink"]
        ELSE [e EXCEPT !.chunkIndex = Inc32(@),
                       !.prefix = <<>>,
                       !.out = SinkWrite(o1, "frame", output),
                       !.sink = SinkNext(s1),
                       !.err = "nil"]

\* a loop that also flushes the last full chunk
RECURSIVE flushLoopEager(_, _, _)
flushLoopEager(e, buf, start) ==
    IF start + e.chunkSize <= Len(buf)
    THEN LET f == flush(e, Slice(buf, start, start + e.chunkSize), FALSE)
         IN  IF f.err # "nil" THEN f
             ELSE flushLoopEager(f, buf, start + e.chunkSize)
    ELSE [e EXCEPT !.buf = Slice(buf, start, Len(buf)), !.err = "nil"]

\* the loop of encryptor.Write: full chunks while more than one chunk
\* remains; a failed flush ends the Write with the buffer as it was
RECURSIVE flushLoop(_, _, _)
flushLoop(e, buf, start) ==
    IF start + e.chunkSize < Len(buf)
    THEN LET f == flush(e, Slice(buf, start, start + e.chunkSize), FALSE)
         IN  IF f.err # "nil" THEN f
             ELSE flushLoop(f, buf, start + e.chunkSize)
    ELSE [e EXCEPT !.buf = Slice(buf, start, Len(buf)), !.err = "nil"]

\* a Write that first flushes what the previous Write left
encWritePerCall(e, data) ==
    IF Len(data) = 0 THEN [e EXCEPT !.err = "nil"]
    ELSE LET f == IF e.buf # <<>> THEN flush(e, e.buf, FALSE) ELSE e
         IN  IF Len(data) > e.chunkSize
             THEN flushLoop([f EXCEPT !.buf = <<>>], data, 0)
             ELSE [f EXCEPT !.buf = data, !.err = "nil"]

\* a Write that only buffers
encWriteNoFlush(e, data) == [e EXCEPT !.buf = e.buf \o data, !.err = "nil"]

\* encryptor.Write; err is the error it returns
encWrite(e, data) ==
    IF Len(data) = 0 THEN [e EXCEPT !.err = "nil"]
    ELSE LET buf == e.buf \o data
         IN  IF Len(buf) > e.chunkSize
             THEN flushLoop(e, buf, 0)
             ELSE [e EXCEPT !.buf = buf, !.err = "nil"]

\* a Close that flushes the rest as an ordinary chunk
encCloseNotFinal(e) == flush(e, e.buf, FALSE)

\* encryptor.Close
encClose(e) == flush(e, e.buf, TRUE)

NewEnc ==
    [chunkSize |-> 0, prefix |-> <<>>, buf |-> <<>>, chunkIndex |-> 0,
     aead |-> <<>>, out |-> <<>>, sink |-> <<>>, err |-> "nil"]

\* the plans of a sink: the outcomes of its first Write calls
SinkPlans == UNION { [1..n -> BOOLEAN] : n \in 0..MaxSinkCalls }

NewCompr == [started |-> FALSE, pending |-> <<>>, closed |-> FALSE]

WInit ==
    /\ wstate = "new"
    /\ key \in Keys
    /\ outerPrefix \in OuterPrefixes
    /\ optChunkSize \in ChunkSizes
    /\ enc = NewEnc
    /\ compr = NewCompr
    /\ written = <<>>
    /\ writes = 0
    /\ closes = 0
    /\ wres = "nil"

\* Seal
Seal ==
    LET cs           == IF optChunkSize = 0 THEN DefaultChunkSize ELSE optChunkSize
        staging      == RandomBytes
        eph          == Slice(staging, nonceSizeX, nonceSizeX + KeySize)
        encapsulated == encapsulate(key.Key, staging)
        prefix       == outerPrefix \o LE32(cs) \o key.ID \o encapsulated
    IN  /\ wstate = "new"
        /\ rstate = "idle"
        /\ wstate' = "open"
        /\ enc' = [chunkSize |-> cs, prefix |-> prefix, buf |-> <<>>,
                   chunkIndex |-> 0, aead |-> eph, out |-> <<>>,
                   sink |-> enc.sink, err |-> "nil"]
        /\ compr' = NewCompr
        /\ wres' = "nil"
        /\ UNCHANGED <<key, outerPrefix, optChunkSize, written, writes, closes>>
        /\ UNCHANGED rvars

\* what the zstd encoder adds to its output for a Write of data
comprEmit(c, data) ==
    IF Len(data) = 0 THEN <<>>
    ELSE (IF c.started THEN <<>> ELSE ZstdMagic) \o ZstdEncode(data)

\* Writer.Write of the next len bytes of the tape: the zstd encoder takes the
\* data and passes the first n bytes of its pending output to
\* encryptor.Write; a closed encoder refuses.
WriteOp(len, n) ==
    LET data == SubSeq(Tape, Len(written) + 1, Len(written) + len)
    IN  /\ wstate = "open"
        /\ rstate = "idle"
        /\ writes < MaxWrites
        /\ Len(written) + len <= MaxData
        /\ writes' = writes + 1
        /\ IF compr.closed
           THEN /\ n = 0
                /\ wres' = "ErrEncoderClosed"
                /\ UNCHANGED <<enc, compr, written>>
           ELSE LET pending == compr.pending \o comprEmit(compr, data)
                IN  /\ n <= Len(pending)
                    /\ enc' = encWrite(enc, Slice(pending, 0, n))
                    /\ compr' = [compr EXCEPT
                                    !.started = @ \/ Len(data) > 0,
                                    !.pending = Slice(pending, n, Len(pending))]
                    /\ written' = written \o data
                    /\ wres' = enc'.err
        /\ UNCHANGED <<wstate, key, outerPrefix, optChunkSize, closes>>
        /\ UNCHANGED rvars

Write == \E len \in 0..MaxData, n \in 0..(MaxData + 1) : WriteOp(len, n)

\* Writer.Close: the zstd encoder passes on what it still holds (in two
\* Write calls split at n) and is closed; then encryptor.Close.  Closing a
\* closed encoder does nothing and returns nil.
CloseOp(n) ==
    /\ wstate = "open"
    /\ rstate = "idle"
    /\ closes < MaxCloses
    /\ closes' = closes + 1
    /\ n <= Len(compr.pending)
    /\ LET p  == compr.pending
           e1 == encWrite(enc, Slice(p, 0, n))
           e2 == encWrite(e1, Slice(p, n, Len(p)))
       IN  enc' = IF e1.err # "nil" THEN e1
                  ELSE IF e2.err # "nil" THEN e2
                  ELSE encClose(e2)
    /\ compr' = [compr EXCEPT !.pending = <<>>, !.closed = TRUE]
    /\ wres' = enc'.err
    /\ UNCHANGED <<wstate, key, outerPrefix, optChunkSize, written, writes>>
    /\ UNCHANGED rvars

Close == \E n \in 0..(MaxData + 1) : CloseOp(n)

----------------------------------------------------------------------------
\* The opener.

NewOpn == [KeyID |-> <<>>, prefix |-> <<>>, chunkSize |-> 0, encapsulated |-> <<>>]

NewDec == [chunkSize |-> 0, buf |-> <<>>, chunkIndex |-> 0, aead |-> <<>>,
           eof |-> FALSE]

NoFeed == [src |-> "none", mode |-> "none", at |-> 0, len |-> 0, pfx |-> <<>>]

RInit ==
    /\ rstate = "idle"
    /\ feed = NoFeed
    /\ input = <<>>
    /\ opn = NewOpn
    /\ dec = NewDec
    /\ rkey = MkKey(0, 0)
    /\ rerr = "nil"
    /\ rfirst = "nil"
    /\ got = <<>>

Min(a, b) == IF a < b THEN a ELSE b

\* io.ReadFull(r, buf) for len(buf) = n: the bytes read, what is left in the
\* source, and the error
ReadFull(r, n) ==
    [bytes |-> Slice(r, 0, Min(n, Len(r))),
     rest  |-> Slice(r, Min(n, Len(r)), Len(r)),
     err   |-> IF Len(r) >= n THEN "nil"
               ELSE IF Len(r) = 0 THEN "EOF" ELSE "ErrUnexpectedEOF"]

\* Prepare: the Openable (when err is "nil"), the rest of the source, the error
prepare(in, pfx) ==
    LET rd        == ReadFull(in, headerSize)
        header    == rd.bytes
        version   == Uint32(Slice(header, offVersion, offVersion + 4))
        chunkSize == Uint32(Slice(header, offChunkSize, offChunkSize + 4))
    IN  IF rd.err # "nil"
        THEN [opn |-> NewOpn, in |-> rd.rest, err |-> rd.err]
        ELSE IF version # 0
        THEN [opn |-> NewOpn, in |-> rd.rest, err |-> "ErrUnsupportedVersion"]
        ELSE IF chunkSize = 0 \/ GreaterU32(chunkSize, MaxChunkSize)
        THEN [opn |-> NewOpn, in |-> rd.rest, err |-> "ErrChunkSizeTooLarge"]
        ELSE [opn |-> [KeyID        |-> Slice(header, offKeyID, offKeyID + IDSize),
                       prefix       |-> pfx \o header,
                       chunkSize    |-> chunkSize,
                       encapsulated |-> Slice(header, offEncKey, headerSize)],
              in  |-> rd.rest,
              err |-> "nil"]

\* decapsulate
decapsulate(userKey, encapsulated) ==
    AeadOpen(userKey, Slice(encapsulated, 0, nonceSizeX),
             Slice(encapsulated, nonceSizeX, nonceSizeX + KeySize + overhead), <<>>)

\* a read that never sets the end-of-stream flag
readNoEof(d, in, prefix) ==
    IF d.eof THEN [dec |-> d, in |-> in, err |-> "EOF"]
    ELSE
    LET rd          == ReadFull(in, chunkHeaderSize + d.chunkSize + overhead)
        n           == Len(rd.bytes)
        headerIndex == Uint32(Slice(rd.bytes, 0, chunkHeaderSize))
        isFinal     == headerIndex = finalChunkIndex
        nonce       == fillNonce(d.chunkIndex, isFinal)
        opened      == AeadOpen(d.aead, nonce, Slice(rd.bytes, chunkHeaderSize, n),
                                prefix)
        d1          == [d EXCEPT !.chunkIndex = Inc32(@)]
    IN  IF n < chunkHeaderSize + overhead
        THEN [dec |-> d, in |-> rd.rest, err |-> "ErrUnexpectedEOF"]
        ELSE IF ~isFinal /\ headerIndex # d.chunkIndex
        THEN [dec |-> d, in |-> rd.rest, err |-> "Corrupted"]
        ELSE IF ~opened.ok
        THEN [dec |-> d1, in |-> rd.rest, err |-> "AuthFailed"]
        ELSE [dec |-> [d1 EXCEPT !.buf = opened.pt],
              in  |-> rd.rest,
              err |-> "nil"]

\* a read that does not compare the chunk header with the index it expects
readNoOrderCheck(d, in, prefix) ==
    IF d.eof THEN [dec |-> d, in |-> in, err |-> "EOF"]
    ELSE
    LET rd          == ReadFull(in, chunkHeaderSize + d.chunkSize + overhead)
        n           == Len(rd.bytes)
        headerIndex == Uint32(Slice(rd.bytes, 0, chunkHeaderSize))
        isFinal     == headerIndex = finalChunkIndex
        nonce       == fillNonce(d.chunkIndex, isFinal)
        opened      == AeadOpen(d.aead, nonce, Slice(rd.bytes, chunkHeaderSize, n),
                                prefix)
        d1          == [d EXCEPT !.chunkIndex = Inc32(@)]
    IN  IF n < chunkHeaderSize + overhead
        THEN [dec |-> d, in |-> rd.rest, err |-> "ErrUnexpectedEOF"]
        ELSE IF ~opened.ok
        THEN [dec |-> d1, in |-> rd.rest, err |-> "AuthFailed"]
        ELSE [dec |-> [d1 EXCEPT !.buf = opened.pt, !.eof = isFinal],
              in  |-> rd.rest,
              err |-> "nil"]

\* a read whose buffer takes all the source has
readToEnd(d, in, prefix) ==
    IF d.eof THEN [dec |-> d, in |-> in, err |-> "EOF"]
    ELSE
    LET rd          == ReadFull(in, Len(in))
        n           == Len(rd.bytes)
        headerIndex == Uint32(Slice(rd.bytes, 0, chunkHeaderSize))
        isFinal     == headerIndex = finalChunkIndex
        nonce       == fillNonce(d.chunkIndex, isFinal)
        opened      == AeadOpen(d.aead, nonce, Slice(rd.bytes, chunkHeaderSize, n),
                                prefix)
        d1          == [d EXCEPT !.chunkIndex = Inc32(@)]
    IN  IF n < chunkHeaderSize + overhead
        THEN [dec |-> d, in |-> rd.rest, err |-> "ErrUnexpectedEOF"]
        ELSE IF ~isFinal /\ headerIndex # d.chunkIndex
        THEN [dec |-> d, in |-> rd.rest, err |-> "Corrupted"]
        ELSE IF ~opened.ok
        THEN [dec |-> d1, in |-> rd.rest, err |-> "AuthFailed"]
        ELSE [dec |-> [d1 EXCEPT !.buf = opened.pt, !.eof = isFinal],
              in  |-> rd.rest,
              err |-> "nil"]

\* decryptor.read: the decryptor, the rest of the source, the error
read(d, in, prefix) ==
    IF d.eof THEN [dec |-> d, in |-> in, err |-> "EOF"]
    ELSE
    LET rd          == ReadFull(in, chunkHeaderSize + d.chunkSize + overhead)
        n           == Len(rd.bytes)
        headerIndex == Uint32(Slice(rd.bytes, 0, chunkHeaderSize))
        isFinal     == headerIndex = finalChunkIndex
        nonce       == fillNonce(d.chunkIndex, isFinal)
        opened      == AeadOpen(d.aead, nonce, Slice(rd.bytes, chunkHeaderSize, n),
                                prefix)
        d1          == [d EXCEPT !.chunkIndex = Inc32(@)]
    IN  IF n < chunkHeaderSize + overhead
        THEN [dec |-> d, in |-> rd.rest, err |-> "ErrUnexpectedEOF"]
        ELSE IF ~isFinal /\ headerIndex # d.chunkIndex
        THEN [dec |-> d, in |-> rd.rest, err |-> "Corrupted"]
        ELSE IF ~opened.ok
        THEN [dec |-> d1, in |-> rd.rest, err |-> "AuthFailed"]
        ELSE [dec |-> [d1 EXCEPT !.buf = opened.pt, !.eof = isFinal],
              in  |-> rd.rest,
              err |-> "nil"]

\* bytes.Buffer of the sink: the bytes of all Write calls, in order
RECURSIVE Flatten(_)
Flatten(ws) == IF ws = <<>> THEN <<>> ELSE Head(ws).bytes \o Flatten(Tail(ws))

----------------------------------------------------------------------------

----------------------------------------------------------------------------
\* The streams an opener is given.

\* A sealed stream in the layout Prepare parses, as the Write calls of a
\* sealer that emits the version field: the composite prefix, then the
\* frames of the compressed bytes z.
RECURSIVE RefFrames(_, _, _, _, _)
RefFrames(eph, cs, z, i, aad) ==
    IF Len(z) > cs
    THEN << [kind  |-> "frame",
             bytes |-> LE32(i) \o AeadSeal(eph, fillNonce(i, FALSE),
                                           Slice(z, 0, cs), aad)] >>
         \o RefFrames(eph, cs, Slice(z, cs, Len(z)), i + 1, <<>>)
    ELSE << [kind  |-> "frame",
             bytes |-> LE32(finalChunkIndex)
                          \o AeadSeal(eph, fillNonce(i, TRUE), z, aad)] >>

RefWrites(len) ==
    LET cs     == IF optChunkSize = 0 THEN DefaultChunkSize ELSE optChunkSize
        eph    == Slice(RandomBytes, nonceSizeX, nonceSizeX + KeySize)
        prefix == outerPrefix \o LE32(0) \o LE32(cs) \o key.ID
                     \o encapsulate(key.Key, RandomBytes)
        data   == SubSeq(Tape, 1, len)
        z      == comprEmit(NewCompr, data)
    IN  << [kind |-> "prefix", bytes |-> prefix] >>
        \o RefFrames(eph, cs, z, 0, prefix)

\* flipping bit 0 of a byte
Tamper(b) ==
    IF b.t = "b"
    THEN Byte(IF b.v % 2 = 0 THEN b.v + 1 ELSE b.v - 1)
    ELSE [t |-> "bad", v |-> b.v, h |-> <<>>]

NumFrames(ws) == Cardinality({ i \in 1..Len(ws) : ws[i].kind = "frame" })

\* the stream of a feed f
BaseWrites(src, len) == IF src = "sink" THEN enc.out ELSE RefWrites(len)

\* the byte string s with the byte at position q (from 1) changed
FlipAt(s, q) ==
    SubSeq(s, 1, q - 1) \o << Tamper(s[q]) >> \o SubSeq(s, q + 1, Len(s))

\* bytes that follow a stream in its source
TrailingBytes == << Byte(7), Byte(8) >>

\* the (version, chunk size) pairs written over the header of a stream
HeaderVariants ==
    << <<0, 1>>, <<0, 2>>, <<0, MaxChunkSize>>, <<0, MaxChunkSize + 1>>,
       <<0, 0>>, <<0, finalChunkIndex>>, <<0, (-MaxInt32) - 1>>,
       <<1, 1>>, <<1, 0>>, <<256, 1>>, <<16777216, MaxChunkSize + 1>>,
       <<finalChunkIndex, 1>> >>

\* a frame with another chunk header
WithHeader(w, i) ==
    [w EXCEPT !.bytes = LE32(i) \o Slice(w.bytes, chunkHeaderSize, Len(w.bytes))]

\* the j-th frame of the Write calls ws of a sealer, sealed again with the
\* additional data aad
Resealed(ws, j, aad) ==
    LET w       == ws[j + 1]
        eph     == Slice(RandomBytes, nonceSizeX, nonceSizeX + KeySize)
        isFinal == j + 1 = Len(ws)
        nonce   == fillNonce(j - 1, isFinal)
        opened  == AeadOpen(eph, nonce, Slice(w.bytes, chunkHeaderSize, Len(w.bytes)),
                            IF j = 1 THEN ws[1].bytes ELSE <<>>)
    IN  [w EXCEPT !.bytes = Slice(w.bytes, 0, chunkHeaderSize)
                               \o AeadSeal(eph, nonce, opened.pt, aad)]

\* the Write calls ws of a sealer (the composite prefix, then the frames)
\* rearranged: the header fields overwritten ("hdr"), the j-th frame
\* dropped, repeated, swapped with the next, presented as final with the
\* rest dropped ("forge"), the final frame presented under its index
\* ("unfinal"), or the j-th frame sealed with the additional data of the
\* other kind of chunk ("aad"); or the stream followed by j other bytes
\* ("trail")
Reframe(ws, m, j) ==
    LET pre == SubSeq(ws, 1, j)
        n   == Len(ws)
    IN  IF m = "hdr"
        THEN LET b == ws[1].bytes
                 o == Len(outerPrefix)
             IN  << [kind  |-> "prefix",
                     bytes |-> Slice(b, 0, o) \o LE32(HeaderVariants[j][1])
                                  \o LE32(HeaderVariants[j][2])
                                  \o Slice(b, o + offKeyID, Len(b))] >>
                 \o Tail(ws)
        ELSE IF m = "drop" THEN pre \o SubSeq(ws, j + 2, n)
        ELSE IF m = "dup"  THEN pre \o << ws[j + 1] >> \o SubSeq(ws, j + 1, n)
        ELSE IF m = "swap"
        THEN pre \o << ws[j + 2], ws[j + 1] >> \o SubSeq(ws, j + 3, n)
        ELSE IF m = "forge"
        THEN pre \o << WithHeader(ws[j + 1], finalChunkIndex) >>
        ELSE IF m = "unfinal"
        THEN pre \o << WithHeader(ws[j + 1], j - 1) >>
        ELSE IF m = "trail"
        THEN ws \o << [kind |-> "trail", bytes |-> SubSeq(TrailingBytes, 1, j)] >>
        ELSE pre \o << Resealed(ws, j, IF j = 1 THEN <<>> ELSE ws[1].bytes) >>
                 \o SubSeq(ws, j + 2, n)

\* the rearrangements of a stream of k frames
ForgeModes(k) ==
    { <<"hdr", i>> : i \in 1..Len(HeaderVariants) }
    \cup { <<m, j>> : m \in {"drop", "dup", "forge"}, j \in 1..(k - 1) }
    \cup { <<"swap", j>> : j \in 1..(k - 2) }
    \cup { <<"aad", j>> : j \in 1..k }
    \cup { <<"unfinal", k>> }
    \cup { <<"trail", i>> : i \in 1..Len(TrailingBytes) }

FeedStream(f) ==
    LET ws == BaseWrites(f.src, f.len)
    IN  IF f.mode = "cut" THEN Flatten(SubSeq(ws, 1, Len(ws) - f.at))
        ELSE IF f.mode = "flip" THEN FlipAt(Flatten(ws), f.at)
        ELSE IF f.mode = "whole" THEN Flatten(ws)
        ELSE Flatten(Reframe(ws, f.mode, f.at))

\* the feeds made of one stream: the stream as it is or with its last frames
\* removed, with any outer prefix given to Prepare; under the threat "flip",
\* a complete stream with one byte changed; under the threat "forge", a
\* stream of another sealer rearranged
FeedsOf(src, len) ==
    LET ws == BaseWrites(src, len)
        ms == {<<"whole", 0>>} \cup { <<"cut", k>> : k \in 1..NumFrames(ws) }
        qs == IF threat = "flip" /\ (src = "ref" \/ closes = 1)
              THEN 1..Len(Flatten(ws)) ELSE {}
        fm == IF threat = "forge" /\ src = "ref"
              THEN ForgeModes(NumFrames(ws)) ELSE {}
    IN  { [src |-> src, mode |-> m[1], at |-> m[2], len |-> len, pfx |-> x] :
            m \in ms, x \in PrefixArgs }
        \cup { [src |-> src, mode |-> "flip", at |-> q, len |-> len,
                pfx |-> outerPrefix] : q \in qs }
        \cup { [src |-> src, mode |-> m[1], at |-> m[2], len |-> len,
                pfx |-> outerPrefix] : m \in fm }

\* the output of the Writer once Seal was called; before that, streams of
\* another sealer
Feeds ==
    IF wstate = "open" THEN FeedsOf("sink", 0)
    ELSE UNION { FeedsOf("ref", len) : len \in 0..MaxData }

----------------------------------------------------------------------------
\* The opener's operations.

\* The caller reads the outer prefix it expects from the source and calls
\* Prepare with it.
PrepareOp(f) ==
    LET own == ReadFull(FeedStream(f), Len(f.pfx))
        p   == prepare(own.rest, f.pfx)
    IN  /\ rstate = "idle"
        /\ feed' = f
        /\ IF own.err # "nil"
           THEN /\ rstate' = "failed"
                /\ rerr' = own.err
                /\ input' = own.rest
                /\ opn' = NewOpn
           ELSE /\ rstate' = IF p.err = "nil" THEN "prepared" ELSE "failed"
                /\ rerr' = p.err
                /\ input' = p.in
                /\ opn' = p.opn
        /\ UNCHANGED <<threat, dec, rkey, rfirst, got>>
        /\ UNCHANGED wvars

Prepare == \E f \in Feeds : PrepareOp(f)

\* an Open that reads the first chunk without additional data
OpenOpNoAad(k) ==
    LET eph == decapsulate(k.Key, opn.encapsulated)
        d0  == [chunkSize |-> opn.chunkSize, buf |-> <<>>, chunkIndex |-> 0,
                aead |-> eph.pt, eof |-> FALSE]
        r   == read(d0, input, <<>>)
    IN  /\ rstate = "prepared"
        /\ rkey' = k
        /\ IF ~eph.ok
           THEN /\ rstate' = "failed"
                /\ rerr' = "AuthFailed"
                /\ UNCHANGED <<input, dec>>
           ELSE /\ rstate' = IF r.err = "nil" THEN "opened" ELSE "failed"
                /\ rerr' = r.err
                /\ input' = r.in
                /\ dec' = r.dec
        /\ UNCHANGED <<threat, feed, opn, rfirst, got>>
        /\ UNCHANGED wvars

\* Openable.Open
OpenOp(k) ==
    LET eph == decapsulate(k.Key, opn.encapsulated)
        d0  == [chunkSize |-> opn.chunkSize, buf |-> <<>>, chunkIndex |-> 0,
                aead |-> eph.pt, eof |-> FALSE]
        r   == read(d0, input, opn.prefix)
    IN  /\ rstate = "prepared"
        /\ rkey' = k
        /\ IF ~eph.ok
           THEN /\ rstate' = "failed"
                /\ rerr' = "AuthFailed"
                /\ UNCHANGED <<input, dec>>
           ELSE /\ rstate' = IF r.err = "nil" THEN "opened" ELSE "failed"
                /\ rerr' = r.err
                /\ input' = r.in
                /\ dec' = r.dec
        /\ UNCHANGED <<threat, feed, opn, rfirst, got>>
        /\ UNCHANGED wvars

Open == \E k \in Keys : OpenOp(k)

\* decryptor.Read(p) with len(p) = plen, as the zstd decoder of the Reader
\* (or any other caller) calls it
ReadOp(plen) ==
    LET r == IF Len(dec.buf) = 0 THEN read(dec, input, <<>>)
             ELSE [dec |-> dec, in |-> input, err |-> "nil"]
        n == Min(plen, Len(r.dec.buf))
    IN  /\ rstate = "opened"
        /\ input' = r.in
        /\ rerr' = r.err
        /\ rfirst' = IF rfirst = "nil" THEN r.err ELSE rfirst
        /\ IF r.err # "nil"
           THEN /\ dec' = r.dec
                /\ got' = got
           ELSE /\ dec' = [r.dec EXCEPT !.buf = Slice(@, n, Len(@))]
                /\ got' = got \o Slice(r.dec.buf, 0, n)
        /\ UNCHANGED <<threat, rstate, feed, opn, rkey>>
        /\ UNCHANGED wvars

Read == \E plen \in 1..MaxRead : ReadOp(plen)

----------------------------------------------------------------------------

Init == WInit /\ RInit /\ threat = "none"

Next == Seal \/ Write \/ Close \/ Prepare \/ Open \/ Read

Spec == Init /\ [][Next]_vars

\* One sealing configuration, with streams that may have one byte changed
\* before they are opened.
InitFlip ==
    /\ WInit
    /\ key = MkKey(69, 17)
    /\ outerPrefix = <<Byte(49), Byte(50)>>
    /\ optChunkSize = 1
    /\ RInit
    /\ threat = "flip"

SpecFlip == InitFlip /\ [][Next]_vars

\* Streams of another sealer that may have been rearranged before they are
\* opened.
InitForge ==
    /\ WInit
    /\ key = MkKey(69, 17)
    /\ RInit
    /\ threat = "forge"

SpecForge == InitForge /\ [][Next]_vars

----------------------------------------------------------------------------
\* The encryptor as the io.WriteCloser it is, written to and closed by its
\* caller directly, over a sink that may fail.

\* encryptor.Write of the next len bytes of the tape; a Write that returns
\* an error has taken no byte
EncryptorWriteOp(len) ==
    LET data == SubSeq(Tape, Len(written) + 1, Len(written) + len)
        e    == encWrite(enc, data)
    IN  /\ wstate = "open"
        /\ rstate = "idle"
        /\ writes < MaxWrites
        /\ Len(written) + len <= MaxData
        /\ writes' = writes + 1
        /\ enc' = e
        /\ written' = IF e.err = "nil" THEN written \o data ELSE written
        /\ wres' = e.err
        /\ UNCHANGED <<wstate, key, outerPrefix, optChunkSize, compr, closes>>
        /\ UNCHANGED rvars

EncryptorWrite == \E len \in 0..MaxData : EncryptorWriteOp(len)

\* encryptor.Close
EncryptorClose ==
    /\ wstate = "open"
    /\ rstate = "idle"
    /\ closes < MaxCloses
    /\ closes' = closes + 1
    /\ enc' = encClose(enc)
    /\ wres' = enc'.err
    /\ UNCHANGED <<wstate, key, outerPrefix, optChunkSize, compr, written,
                   writes>>
    /\ UNCHANGED rvars

InitEnc ==
    /\ wstate = "new"
    /\ key = MkKey(69, 17)
    /\ outerPrefix = <<Byte(49), Byte(50)>>
    /\ optChunkSize \in ChunkSizes
    /\ enc \in { [NewEnc EXCEPT !.sink = p] : p \in SinkPlans }
    /\ compr = NewCompr
    /\ written = <<>>
    /\ writes = 0
    /\ closes = 0
    /\ wres = "nil"
    /\ RInit
    /\ threat = "none"

NextEnc == Seal \/ EncryptorWrite \/ EncryptorClose

SpecEnc == InitEnc /\ [][NextEnc]_vars

----------------------------------------------------------------------------
\* Sealing with the chunk sizes at the bound of the format.

BoundaryChunkSizes == { 0, MaxChunkSize, MaxChunkSize + 1 }

InitBoundary ==
    /\ wstate = "new"
    /\ key = MkKey(69, 17)
    /\ outerPrefix \in OuterPrefixes
    /\ optChunkSize \in BoundaryChunkSizes
    /\ enc = NewEnc
    /\ compr = NewCompr
    /\ written = <<>>
    /\ writes = 0
    /\ closes = 0
    /\ wres = "nil"
    /\ RInit
    /\ threat = "none"

SpecBoundary == InitBoundary /\ [][Next]_vars

----------------------------------------------------------------------------
\* The encryptor late in a long stream: it has emitted some number of
\* non-final chunks (so the prefix is written and cleared and chunkIndex
\* is that number as a uint32), and the record of the sink starts there.

\* the numbers of chunks emitted so far: 0xffff_fffc .. 0xffff_ffff, and
\* the two around 2^31
ChunksEmitted == { -4, -3, -2, finalChunkIndex, MaxInt32 - 1, MaxInt32 }

InitWrap ==
    /\ wstate = "open"
    /\ key = MkKey(69, 17)
    /\ outerPrefix = <<>>
    /\ optChunkSize \in 1..MaxCS
    /\ enc \in { [chunkSize |-> optChunkSize, prefix |-> <<>>, buf |-> <<>>,
                   chunkIndex |-> i,
                   aead |-> Slice(RandomBytes, nonceSizeX, nonceSizeX + KeySize),
                   out |-> <<>>, sink |-> <<>>, err |-> "nil"] :
                 i \in ChunksEmitted }
    /\ compr = NewCompr
    /\ written = <<>>
    /\ writes = 0
    /\ closes = 0
    /\ wres = "nil"
    /\ RInit
    /\ threat = "none"

NextWrap == EncryptorWrite \/ EncryptorClose

SpecWrap == InitWrap /\ [][NextWrap]_vars

----------------------------------------------------------------------------
\* Vocabulary of the properties.

\* the frames among the Write calls the sink received
Frames(ws) == SelectSeq(ws, LAMBDA w : w.kind = "frame")

FrameHeader(w) == Uint32(Slice(w.bytes, 0, chunkHeaderSize))

\* the number of plaintext bytes a frame carries
FrameLen(w) == Len(w.bytes) - chunkHeaderSize - overhead

\* Prepare returned an Openable
Prepared == opn # NewOpn

\* the opener was given the sink's bytes as they are, and the outer prefix
\* that was given to Seal
Honest == feed.src = "sink" /\ feed.mode = "whole" /\ feed.pfx = outerPrefix

\* the sink holds the output of Seal, Write*, Close
Sealed == wstate = "open" /\ closes = 1

\* the reader reached a clean end-of-stream
CleanEOF == rstate = "opened" /\ rfirst = "EOF"

\* the offset in the sink's bytes of its i-th Write call
Offset(ws, i) == Len(Flatten(SubSeq(ws, 1, i - 1)))

\* the positions (from 1) in the sink's bytes of the sealed bodies of its frames
BodyPositions(ws) ==
    UNION { (Offset(ws, i) + chunkHeaderSize + 1)..(Offset(ws, i) + Len(ws[i].bytes)) :
              i \in { j \in 1..Len(ws) : ws[j].kind = "frame" } }

\* the positions of the envelope header Seal wrote, and of the encapsulated
\* key in it
HeaderPositions(ws) ==
    IF ws = <<>> THEN {} ELSE (Len(outerPrefix) + 1)..Len(ws[1].bytes)

EncKeyPositions(ws) ==
    IF ws = <<>> THEN {}
    ELSE (Len(ws[1].bytes) - (nonceSizeX + KeySize + overhead) + 1)..Len(ws[1].bytes)

----------------------------------------------------------------------------
\* C1. Round trip: the stream of Seal, Write*, Close, given to Prepare after
\* its outer prefix with the same outer prefix, opened with the same key and
\* read to the end, yields the plaintext that was written and no error.
C1_RoundTrip ==
    (Sealed /\ Honest) =>
        /\ rstate # "idle" => Prepared
        /\ (rstate = "failed" /\ rkey = key) => FALSE
        /\ (rstate = "opened" /\ rkey = key /\ rfirst # "nil") =>
              /\ rfirst = "EOF"
              /\ ZstdDecode(got).ok
              /\ ZstdDecode(got).data = written

\* C2. The header Seal emits has the layout Prepare parses: it is 112 bytes
\* long, Prepare succeeds on it, and the Openable carries the KeyID of the
\* key given to Seal and the sealer's chunk size.
C2_KeyIDRoundTrip ==
    (wstate = "open" /\ enc.out # <<>>) =>
        /\ Len(enc.out[1].bytes) = Len(outerPrefix) + headerSize
        /\ (Honest /\ rstate # "idle") =>
              /\ Prepared
              /\ opn.KeyID = key.ID
              /\ opn.chunkSize = enc.chunkSize

\* C3. Seal then Close with no Write emits the envelope header and exactly
\* one frame, final and with no plaintext; opening that stream returns no
\* byte, then end-of-stream, and no error.
C3_ZeroBytePlaintext ==
    (Sealed /\ writes = 0) =>
        /\ Len(enc.out) = 2
        /\ enc.out[1].kind = "prefix"
        /\ enc.out[2].kind = "frame"
        /\ FrameHeader(enc.out[2]) = finalChunkIndex
        /\ FrameLen(enc.out[2]) = 0
        /\ (Honest /\ rkey = key) =>
              /\ rstate # "failed"
              /\ rfirst \in {"nil", "EOF"}
              /\ got = <<>>
        /\ (Honest /\ rstate # "idle") => Prepared

\* C4. In the stream of writes ended by a close exactly one frame carries
\* the sentinel header 0xFFFFFFFF, and it is the last frame of the stream.
C4_OneFinalFrameLast ==
    Sealed =>
        LET fs == Frames(enc.out)
        IN  /\ Len(fs) >= 1
            /\ enc.out[Len(enc.out)].kind = "frame"
            /\ \A i \in 1..Len(fs) :
                  (FrameHeader(fs[i]) = finalChunkIndex) <=> (i = Len(fs))

C4_Witness ==
    /\ Sealed
    /\ Len(Frames(enc.out)) >= 3
    /\ FrameHeader(Frames(enc.out)[1]) = 0

\* C5. A stream without its final chunk (the output of a Writer that was not
\* closed, or a sealed stream whose last frames were removed) is never
\* accepted: Prepare, Open or a read returns Truncated or AuthFailed, and the
\* reader never reports a clean end-of-stream.
C5_NoFinalChunkRejected ==
    (/\ feed.src = "sink"
     /\ feed.pfx = outerPrefix
     /\ \/ closes = 0 /\ feed.mode \in {"whole", "cut"}
        \/ closes = 1 /\ feed.mode = "cut") =>
        /\ ~CleanEOF
        /\ (rstate = "failed" /\ ~Prepared) => rerr \in {"EOF", "ErrUnexpectedEOF"}
        /\ (rstate = "failed" /\ Prepared) => rerr \in {"ErrUnexpectedEOF", "AuthFailed"}
        /\ rfirst \in {"nil", "ErrUnexpectedEOF", "AuthFailed"}

\* C6. Wrong key: on a sealed stream Prepare succeeds, and Open with a key
\* whose secret differs from the sealing key's fails with AuthFailed and
\* returns no Reader.
C6_WrongKey ==
    (Sealed /\ Honest /\ rstate # "idle") =>
        /\ Prepared
        /\ (rstate # "prepared" /\ rkey.Key # key.Key) =>
              rstate = "failed" /\ rerr = "AuthFailed"

\* C7. Changing one byte of the sealed body of a chunk, or of the
\* encapsulated key, of a sealed stream makes Open fail with AuthFailed.
C7_TamperedCiphertext ==
    (/\ Sealed
     /\ feed.src = "sink"
     /\ feed.mode = "flip"
     /\ feed.at \in BodyPositions(enc.out) \cup EncKeyPositions(enc.out)
     /\ feed.pfx = outerPrefix) =>
        /\ Prepared
        /\ (rstate # "prepared" /\ rkey = key) =>
              rstate = "failed" /\ rerr = "AuthFailed"

\* C8. Prefix binding: when the outer prefix given to Prepare differs from
\* the one given to Seal, or a byte of the envelope header was changed, the
\* tampering surfaces as AuthFailed on Open, never as an opened Reader.
C8_PrefixBinding ==
    (/\ Sealed
     /\ feed.src = "sink"
     /\ \/ feed.mode = "whole" /\ feed.pfx # outerPrefix
        \/ /\ feed.mode = "flip"
           /\ feed.at \in HeaderPositions(enc.out)
           /\ feed.pfx = outerPrefix) =>
        /\ rstate # "opened"
        /\ rstate = "failed" => (Prepared /\ rerr = "AuthFailed")

\* C9. Once a decryptor read has returned AuthFailed, Corrupted or Truncated,
\* every later read returns the same error and no further byte.
C9_TerminalError ==
    [][ (rstate = "opened" /\ rerr \in {"AuthFailed", "Corrupted", "ErrUnexpectedEOF"})
          => (rerr' = rerr /\ got' = got) ]_vars

\* C10. After Close has returned, a further Write is an error, and neither a
\* further Write nor a second Close writes another byte to the sink.
C10_ClosedWriterConsumed ==
    [][ closes >= 1 =>
          /\ enc'.out = enc.out
          /\ writes' # writes => wres' # "nil" ]_vars

\* C11: once a Write or Close of the encryptor has returned an error of the
\* sink, every further Write returns such an error and writes nothing to
\* the sink.
C11_WriterPoisoned ==
    [][(wres = "ErrSink" /\ writes' # writes)
          => (wres' = "ErrSink" /\ enc'.out = enc.out)]_vars

----------------------------------------------------------------------------
\* Vocabulary of the chunking properties.

\* the bytes the zstd encoder has passed to the encryptor once the Writer is
\* closed
Fed == comprEmit(NewCompr, written)

\* the chunks of z at chunk size cs: full chunks while more than cs bytes
\* remain, then the rest
RECURSIVE Chunks(_, _)
Chunks(z, cs) ==
    IF Len(z) > cs
    THEN << Slice(z, 0, cs) >> \o Chunks(Slice(z, cs, Len(z)), cs)
    ELSE << z >>

\* the j-th frame of the sink opened as chunk j - 1, final or not as its
\* header says, with the additional data aad
FrameOpen(ws, j, aad) ==
    LET w == Frames(ws)[j]
    IN  AeadOpen(enc.aead,
                 fillNonce(j - 1, FrameHeader(w) = finalChunkIndex),
                 Slice(w.bytes, chunkHeaderSize, Len(w.bytes)), aad)

\* the additional data of the j-th frame: the first Write call of the sink
\* for chunk 0, nothing afterwards
FrameAad(ws, j) == IF j = 1 THEN ws[1].bytes ELSE <<>>

CeilDiv(n, d) == (n + d - 1) \div d

\* C12. Fragmentation invariance: whatever the Write calls the bytes reached
\* the encryptor in (empty ones included), after Close the sink holds the
\* frames of the chunks of these bytes: as many, with the header indices
\* 0, 1, ... and the sentinel last, each holding its chunk's bytes.
C12_FragmentationInvariance ==
    Sealed =>
        LET fs == Frames(enc.out)
            cs == Chunks(Fed, enc.chunkSize)
        IN  /\ Len(fs) = Len(cs)
            /\ \A j \in 1..Len(fs) :
                  /\ FrameHeader(fs[j]) =
                        IF j = Len(fs) THEN finalChunkIndex ELSE j - 1
                  /\ FrameOpen(enc.out, j, FrameAad(enc.out, j)).ok
                  /\ FrameOpen(enc.out, j, FrameAad(enc.out, j)).pt = cs[j]

C12_Witness ==
    /\ Sealed
    /\ writes = 2
    /\ Len(Frames(enc.out)) >= 3
    /\ enc.chunkSize = 1

\* C13. Chunk sizes: every frame but the final one carries exactly
\* chunk_size plaintext bytes, and the final one between 0 and chunk_size.
C13_ChunkSizes ==
    Sealed =>
        LET fs == Frames(enc.out)
        IN  /\ fs # <<>>
            /\ \A j \in 1..(Len(fs) - 1) : FrameLen(fs[j]) = enc.chunkSize
            /\ FrameLen(fs[Len(fs)]) \in 0..enc.chunkSize

C13_Witness ==
    /\ Sealed
    /\ Len(Frames(enc.out)) >= 2
    /\ FrameLen(enc.out[Len(enc.out)]) > 0
    /\ FrameLen(enc.out[Len(enc.out)]) < enc.chunkSize

\* C14 as claimed. The number of frames is ceil(fed / chunk_size), at least
\* 1, and when the bytes fed are k * chunk_size the final chunk is empty:
\* k non-final frames and an empty final one.
C14_ExactMultipleEmptyFinal ==
    Sealed =>
        LET fs == Frames(enc.out)
            n  == Len(Fed)
        IN  /\ Len(fs) = IF n = 0 THEN 1 ELSE CeilDiv(n, enc.chunkSize)
            /\ n % enc.chunkSize = 0 =>
                  /\ Len(fs) = n \div enc.chunkSize + 1
                  /\ FrameLen(fs[Len(fs)]) = 0

\* C14 amended. The number of frames is ceil(fed / chunk_size), at least 1;
\* when the bytes fed are k * chunk_size with k >= 1 there are k frames, the
\* final one carrying chunk_size bytes; the final chunk is empty only when
\* no byte was fed.
C14_ExactMultipleFullFinal ==
    Sealed =>
        LET fs == Frames(enc.out)
            n  == Len(Fed)
        IN  /\ Len(fs) = IF n = 0 THEN 1 ELSE CeilDiv(n, enc.chunkSize)
            /\ (n > 0 /\ n % enc.chunkSize = 0) =>
                  /\ Len(fs) = n \div enc.chunkSize
                  /\ FrameLen(fs[Len(fs)]) = enc.chunkSize
            /\ FrameLen(fs[Len(fs)]) = 0 <=> n = 0

C14_Witness ==
    /\ Sealed
    /\ Len(Fed) = 2 * enc.chunkSize
    /\ Len(Frames(enc.out)) = 2

----------------------------------------------------------------------------
\* C15. Prepare on a header with the fields (version, chunk_size): the
\* error is UnsupportedVersion when version is not 0; otherwise
\* ChunkSizeTooLarge when chunk_size is 0 or above MaxChunkSize; otherwise
\* Prepare succeeds with that chunk size, and what is left in the source is
\* everything after the 112 header bytes.
C15_PrepareValidation ==
    (feed.mode = "hdr" /\ rstate # "idle") =>
        LET version   == HeaderVariants[feed.at][1]
            chunkSize == HeaderVariants[feed.at][2]
        IN  /\ version # 0 =>
                  ~Prepared /\ rerr = "ErrUnsupportedVersion"
            /\ (version = 0 /\ chunkSize \notin 1..MaxChunkSize) =>
                  ~Prepared /\ rerr = "ErrChunkSizeTooLarge"
            /\ (version = 0 /\ chunkSize \in 1..MaxChunkSize) =>
                  /\ Prepared
                  /\ opn.chunkSize = chunkSize
                  /\ rstate = "prepared" =>
                        input = Flatten(Tail(RefWrites(feed.len)))

C15_Witness ==
    /\ feed.mode = "hdr"
    /\ rstate = "prepared"
    /\ opn.chunkSize = MaxChunkSize
    /\ Len(input) > chunkHeaderSize + overhead

----------------------------------------------------------------------------
\* the plaintext of the chunks of a stream of another sealer, in frame order
RefPlain(len) == comprEmit(NewCompr, SubSeq(Tape, 1, len))

\* the opener was given a valid stream of another sealer with its outer
\* prefix and opened it with its key; the source ends with the stream, or
\* goes on after a final frame of full size
ValidStream ==
    /\ feed.src = "ref"
    /\ feed.pfx = outerPrefix
    /\ rstate = "opened"
    /\ rkey = key
    /\ \/ feed.mode = "whole"
       \/ /\ feed.mode = "trail"
          /\ Len(Chunks(RefPlain(feed.len), opn.chunkSize)
                   [Len(Chunks(RefPlain(feed.len), opn.chunkSize))])
                = opn.chunkSize

IsPrefixOf(a, b) == Len(a) <= Len(b) /\ a = SubSeq(b, 1, Len(a))

\* C16. On a valid stream, for any sizes of the read buffers, the bytes the
\* decryptor's reads return are, in order and without loss or repetition,
\* the plaintext of the chunks in frame order; once the final chunk is
\* drained every further read returns end-of-stream and takes nothing from
\* the source.
C16_ReaderOrderAndEOF ==
    [][/\ ValidStream' =>
            /\ rerr' \in {"nil", "EOF"}
            /\ IsPrefixOf(got', RefPlain(feed'.len))
            /\ IsPrefixOf(got' \o dec'.buf, RefPlain(feed'.len))
            /\ rerr' = "EOF" => got' = RefPlain(feed'.len)
       /\ (ValidStream /\ (rerr = "EOF" \/ (dec.eof /\ dec.buf = <<>>))) =>
            (rerr' = "EOF" /\ input' = input /\ got' = got)]_vars

C16_Witness ==
    /\ ValidStream
    /\ feed.mode = "trail"
    /\ rerr = "EOF"
    /\ Len(got) >= 3
    /\ dec.chunkIndex >= 2
    /\ input = TrailingBytes

----------------------------------------------------------------------------
\* C17. Deferred header emission: Seal and the writes that complete no
\* chunk write nothing to the sink; over any sequence of writes and closes
\* the composite prefix (the outer prefix, then the envelope header) is
\* written once, as the first Write call of the sink, and the next call is
\* the frame of chunk 0.
C17_DeferredHeader ==
    [][/\ enc'.chunkIndex = enc.chunkIndex => enc'.out = enc.out
       /\ wstate' = "open" =>
            /\ enc'.chunkIndex = 0 => enc'.out = <<>>
            /\ enc'.chunkIndex > 0 =>
                  /\ Len(enc'.out) = enc'.chunkIndex + 1
                  /\ enc'.out[1].kind = "prefix"
                  /\ Len(enc'.out[1].bytes) > Len(outerPrefix)
                  /\ IsPrefixOf(outerPrefix, enc'.out[1].bytes)
                  /\ \A i \in 2..Len(enc'.out) : enc'.out[i].kind = "frame"
                  /\ (FrameOpen(enc.out, 1, enc.out[1].bytes).ok)']_vars

C17_Witness ==
    /\ Sealed
    /\ writes = 2
    /\ Len(enc.out) >= 3
    /\ enc.out[1].kind = "prefix"

\* the pull of the frame at position pos of the stream (from 1) fails with
\* the error err, and no pull before it fails
FailsAtWith(pos, err) ==
    /\ rstate = "failed" => rerr = err
    /\ pos = 1 => rstate # "opened"
    /\ rstate = "opened" =>
          /\ rfirst \in {"nil", err}
          /\ rfirst = "nil" => Len(got) <= (pos - 1) * opn.chunkSize

\* the opener was given a rearranged stream of kind m with its outer prefix
\* and used the sealer's key
Forged(m) == feed.mode = m /\ rstate \in {"opened", "failed"} /\ rkey = key

\* C18. Additional data: the encryptor seals chunk 0 with the composite
\* prefix as it wrote it to the sink and every later chunk with none; the
\* decryptor opens the first chunk with the composite prefix of the
\* Openable and every later chunk with none, so that it accepts the chunks
\* sealed that way and refuses a chunk sealed with the additional data of
\* the other kind.
C18_AadDiscipline ==
    /\ wstate = "open" =>
          \A j \in 1..Len(Frames(enc.out)) :
              /\ FrameOpen(enc.out, j, FrameAad(enc.out, j)).ok
              /\ ~FrameOpen(enc.out, j, IF j = 1 THEN <<>> ELSE enc.out[1].bytes).ok
    /\ (feed.src = "ref" /\ feed.mode = "whole" /\ feed.pfx = outerPrefix
          /\ rkey = key) =>
          /\ rstate # "failed"
          /\ rerr \in {"nil", "EOF"}
    /\ Forged("aad") => FailsAtWith(feed.at, "AuthFailed")

C18_Witness ==
    /\ Forged("aad")
    /\ feed.at = 2
    /\ rfirst = "AuthFailed"
    /\ got # <<>>

\* the chunk header at the front of the source
NextHeader == Uint32(Slice(input, 0, chunkHeaderSize))

\* C19. Chunk order: a pull of a frame whose header is neither the sentinel
\* nor the index the decryptor expects fails with the corruption error and
\* leaves the decryptor (its chunk index, its end-of-stream flag, its
\* plaintext) as it was; so a stream with two non-final frames swapped, or
\* a non-final frame dropped or repeated, is rejected: with that error at
\* the first frame out of place, or, when the frame dropped was the one
\* before the final frame, with AuthFailed at the final frame.
C19_ChunkOrder ==
    [][/\ (/\ rstate = "opened"
           /\ dec.buf = <<>> /\ ~dec.eof
           /\ Len(input) >= chunkHeaderSize + overhead
           /\ NextHeader \notin {finalChunkIndex, dec.chunkIndex}) =>
             (rerr' = "Corrupted" /\ dec' = dec /\ got' = got)
       /\ (/\ rstate = "prepared"
           /\ decapsulate(rkey'.Key, opn.encapsulated).ok
           /\ Len(input) >= chunkHeaderSize + overhead
           /\ NextHeader \notin {finalChunkIndex, 0}) =>
             /\ rstate' = "failed" /\ rerr' = "Corrupted"
             /\ dec'.chunkIndex = 0 /\ ~dec'.eof /\ dec'.buf = <<>>
       /\ (Forged("swap") => FailsAtWith(feed.at, "Corrupted"))'
       /\ (Forged("dup") => FailsAtWith(feed.at + 1, "Corrupted"))'
       /\ (Forged("drop") =>
             FailsAtWith(feed.at,
                         IF feed.at + 1 < NumFrames(RefWrites(feed.len))
                         THEN "Corrupted" ELSE "AuthFailed"))']_vars

C19_Witness ==
    /\ Forged("dup")
    /\ rfirst = "Corrupted"
    /\ got # <<>>
    /\ dec.chunkIndex = feed.at

\* C20. Final-marker forgery: a non-final frame given the sentinel header
\* (the frames after it dropped), or the final frame given its true index,
\* fails to open with AuthFailed when it is pulled.
C20_FinalMarkerForgery ==
    /\ Forged("forge") => FailsAtWith(feed.at, "AuthFailed")
    /\ Forged("unfinal") => FailsAtWith(feed.at, "AuthFailed")

C20_Witness ==
    /\ Forged("forge")
    /\ feed.at = 2
    /\ rfirst = "AuthFailed"
    /\ got # <<>>

----------------------------------------------------------------------------
\* i + n on a uint32
RECURSIVE IncBy(_, _)
IncBy(i, n) == IF n = 0 THEN i ELSE IncBy(Inc32(i), n - 1)

\* the frames a step of the encryptor adds to the sink
NewFrames == Len(enc'.out) - Len(enc.out)

\* C21. Chunk indices and nonces: the index in the nonce of each chunk the
\* encryptor emits is its counter, which goes up by one per chunk; the
\* frame's header is that index for a non-final chunk and the sentinel for
\* the final one; the header of a non-final frame is never the sentinel,
\* and no chunk after the first is sealed under index 0 again, however
\* many chunks were emitted.
C21_IndicesAndNonces ==
    [][\A j \in 1..NewFrames :
          LET w       == enc'.out[Len(enc.out) + j]
              index   == IncBy(enc.chunkIndex, j - 1)
              isFinal == closes' # closes
          IN  /\ w.kind = "frame"
              /\ AeadOpen(enc.aead, fillNonce(index, isFinal),
                          Slice(w.bytes, chunkHeaderSize, Len(w.bytes)),
                          <<>>).ok
              /\ FrameHeader(w) = IF isFinal THEN finalChunkIndex ELSE index
              /\ ~isFinal => FrameHeader(w) # finalChunkIndex
              /\ enc'.chunkIndex = IncBy(enc.chunkIndex, NewFrames)
              /\ ~(~isFinal /\ index = 0 /\ (j > 1 \/ enc.prefix = <<>>))]_vars

----------------------------------------------------------------------------
\* the composite prefix Seal built: held by the encryptor until the first
\* flush, the first Write call of the sink afterwards
SealedPrefix == IF enc.prefix # <<>> THEN enc.prefix ELSE enc.out[1].bytes

\* the chunk size Seal wrote into the envelope header
SealedChunkSize ==
    Uint32(Slice(SealedPrefix, Len(outerPrefix), Len(outerPrefix) + 4))

\* C22. Seal honours the chunk size bound: a chunk size of 0 becomes
\* DefaultChunkSize, and the chunk size Seal writes into the header, which
\* is the one its encryptor uses, is within 1..MaxChunkSize.
C22_SealChunkSizeBound ==
    wstate = "open" =>
        /\ optChunkSize = 0 => SealedChunkSize = DefaultChunkSize
        /\ SealedChunkSize = enc.chunkSize
        /\ SealedChunkSize \in 1..MaxChunkSize

----------------------------------------------------------------------------
\* the opener was given a valid stream of another sealer followed by other
\* bytes, with its outer prefix, and used its key
Trailing ==
    /\ feed.src = "ref"
    /\ feed.mode = "trail"
    /\ rstate \in {"opened", "failed"}
    /\ rkey = key

\* the plaintext length of the final chunk of the stream of the feed
FinalChunkLen ==
    LET cs == Chunks(RefPlain(feed.len), opn.chunkSize)
    IN  Len(cs[Len(cs)])

\* the reads return the plaintext of the stream and no error but
\* end-of-stream
ReadsPlaintext ==
    /\ rstate # "failed"
    /\ rerr \in {"nil", "EOF"}
    /\ IsPrefixOf(got, RefPlain(feed.len))
    /\ rerr = "EOF" => got = RefPlain(feed.len)

\* C23 as claimed. A valid stream followed by other bytes reads as the
\* stream alone: the plaintext, then end-of-stream, and no error.
C23_TrailingBytesHarmless == Trailing => ReadsPlaintext

\* C23 amended. A valid stream followed by other bytes reads as the stream
\* alone when its final chunk has chunk_size bytes; when the final chunk
\* is shorter, the pull of the final frame takes bytes after it and fails
\* with AuthFailed, after the plaintext of the chunks before it, and the
\* reader never reports a clean end-of-stream.
C23_TrailingBytesAfterFullFinal ==
    Trailing =>
        IF FinalChunkLen = opn.chunkSize
        THEN ReadsPlaintext
        ELSE /\ FailsAtWith(NumFrames(RefWrites(feed.len)), "AuthFailed")
             /\ rfirst # "EOF"
             /\ rfirst = "nil" => IsPrefixOf(got, RefPlain(feed.len))

C23_Witness ==
    /\ Trailing
    /\ FinalChunkLen < opn.chunkSize
    /\ rfirst = "AuthFailed"
    /\ got # <<>>
    /\ input = <<>>

====
